---- MODULE Spec2Model ----
(***************************************************************************)
(* Model of aligner/config.py: the training-stage configuration records    *)
(* (MonophoneConfig, TriphoneConfig, TriphoneFmllrConfig, LdaMlltConfig)   *)
(* with their derived properties, and MfccConfig, which persists its       *)
(* option dictionary to a file.                                            *)
(*                                                                         *)
(* Four specifications share the module:                                   *)
(*   SpecStage  construction of one training-stage configuration and reads *)
(*              of inc_gauss_count;                                        *)
(*   Spec       one MfccConfig object whose filesystem calls all succeed;  *)
(*   SpecFault  one MfccConfig object whose filesystem calls may raise;    *)
(*   SpecConc   two MfccConfig objects with the same path whose write()    *)
(*              calls interleave.                                          *)
(***************************************************************************)
EXTENDS Integers, Sequences, FiniteSets, TLC

VARIABLES
    \* ---- training-stage configuration (SpecStage)
    cls,            \* class of the constructed object, "none" before construction
    obj,            \* attribute name -> value (Absent when the attribute is not set), <<>> before construction
    ctorKwargs,     \* the **kwargs the caller passed to the constructor
    ctorAlignOften, \* TriphoneFmllrConfig's named parameter align_often as bound
    incResult,      \* outcome of the last read of inc_gauss_count
    \* ---- MfccConfig (Spec)
    constructed,    \* whether MfccConfig.__init__ returned normally
    job,            \* self.job
    output_directory, \* self.output_directory
    config_dict,    \* self.config_dict: sequence of <<key, value>> in insertion order
    dirs,           \* directories that exist
    files,          \* path -> content of the files that exist
    lastOp,         \* last operation performed on the object
    lastKw,         \* the mapping passed to that operation
    lastOutcome,    \* whether that operation returned or which call raised OSError
    lastWrite,      \* "ok" or "error": how the most recent write() ended
    pathResult,     \* value returned by the last read of the path property
    \* ---- two concurrent writers (SpecConc)
    wdict,          \* writer -> config_dict of its object
    wpc,            \* writer -> "idle" | "open" | "done"
    widx,           \* writer -> number of dictionary entries passed to f.write
    wbuf,           \* writer -> text accepted by f.write and not yet on disk
    cfile,          \* content of the shared file
    overlap,        \* whether the two write() calls overlapped in time
    wlast           \* the writer whose write() returned last, 0 before any has

stageVars == <<cls, obj, ctorKwargs, ctorAlignOften, incResult>>
mfccVars  == <<constructed, job, output_directory, config_dict, dirs, files,
               lastOp, lastKw, lastOutcome, lastWrite, pathResult>>
concVars  == <<wdict, wpc, widx, wbuf, cfile, overlap, wlast>>
vars      == <<stageVars, mfccVars, concVars>>

(***************************************************************************)
(* Python values.  Every value is a record of the same shape so that any   *)
(* two values can be compared: kind tells which field carries the value.   *)
(*   b  bool        n  int        s  str as a sequence of characters       *)
(*   t  repr of a float or an opaque str        l  list of int             *)
(*   tl list of str                                                        *)
(***************************************************************************)
BaseV == [kind |-> "none", b |-> FALSE, n |-> 0, s |-> <<>>, t |-> "", l |-> <<>>, tl |-> <<>>]

NoneV      == BaseV
Absent     == [BaseV EXCEPT !.kind = "absent"]
BoolV(x)   == [BaseV EXCEPT !.kind = "bool", !.b = x]
IntV(x)    == [BaseV EXCEPT !.kind = "int", !.n = x]
StrV(x)    == [BaseV EXCEPT !.kind = "str", !.s = x]
FloatV(x)  == [BaseV EXCEPT !.kind = "float", !.t = x]
TextV(x)   == [BaseV EXCEPT !.kind = "str", !.t = x]
ListV(x)   == [BaseV EXCEPT !.kind = "list", !.l = x]
TListV(x)  == [BaseV EXCEPT !.kind = "list", !.tl = x]

\* Python truthiness of the values the model uses (bool(v))
Truthy(v) ==
    CASE v.kind = "bool" -> v.b
      [] v.kind = "int"  -> v.n # 0
      [] v.kind = "str"  -> v.s # <<>> \/ v.t # ""
      [] v.kind = "list" -> v.l # <<>> \/ v.tl # <<>>
      [] OTHER -> FALSE

(***************************************************************************)
(* Keyword-argument mappings of the training-stage constructors are        *)
(* functions from attribute names to values.  The order of a mapping's     *)
(* entries does not matter there: every entry sets a different attribute.  *)
(***************************************************************************)
EmptyKw == [k \in {} |-> Absent]

\* dict.get(key, default)
KwGet(kwargs, key, default) ==
    IF key \in DOMAIN kwargs THEN kwargs[key] ELSE default

\* defaults.update(kwargs) on the copy the constructor then passes on:
\* the mutant keeps the stage default when the caller names the same key
StageDictUpdateKeepDefaults(defaults, kwargs) ==
    [k \in DOMAIN defaults \cup DOMAIN kwargs |->
        IF k \in DOMAIN defaults THEN defaults[k] ELSE kwargs[k]]

\* defaults.update(kwargs): entries of kwargs replace or extend defaults
StageDictUpdate(defaults, kwargs) ==
    [k \in DOMAIN defaults \cup DOMAIN kwargs |->
        IF k \in DOMAIN kwargs THEN kwargs[k] ELSE defaults[k]]

StageFields ==
    {"num_iters", "scale_opts", "beam", "retry_beam", "max_gauss_count",
     "boost_silence", "realign_iters", "stage", "power", "do_fmllr",
     "do_lda_mllt", "initial_gauss_count", "cluster_threshold",
     "fmllr_update_type", "fmllr_iters", "fmllr_power", "silence_weight",
     "align_often", "num_gauss", "dim", "careful", "randprune",
     "splice_opts", "cluster_thresh", "norm_vars"}

\* for k, v in kwargs.items(): setattr(self, k, v), on top of the attributes
\* already assigned; every other attribute stays unset
SetAttrs(assigned, kwargs) ==
    [f \in StageFields |->
        IF f \in DOMAIN kwargs THEN kwargs[f]
        ELSE IF f \in DOMAIN assigned THEN assigned[f]
        ELSE Absent]

ScaleOpts ==
    TListV(<<"--transition-scale=1.0", "--acoustic-scale=0.1", "--self-loop-scale=0.1">>)

\* the list assigned at config.py:67-68
RealignItersIfBranch ==
    <<1, 2, 3, 4, 5, 6, 7, 8, 9, 10, 12, 14, 16, 18, 20, 23, 26, 29, 32, 35, 38>>

\* the list assigned at config.py:70
RealignItersElseBranch ==
    <<1, 5, 10, 15, 20, 25, 30, 35, 38>>

\* MonophoneConfig.__init__(self, **kwargs)
MonophoneConfig_init(kwargs) ==
    LET assigned ==
            [num_iters       |-> IntV(40),
             scale_opts      |-> ScaleOpts,
             beam            |-> IntV(10),
             retry_beam      |-> IntV(40),
             max_gauss_count |-> IntV(1000),
             boost_silence   |-> FloatV("1.0"),
             realign_iters   |->
                 IF Truthy(KwGet(kwargs, "align_often", BoolV(FALSE)))
                 THEN ListV(RealignItersIfBranch)
                 ELSE ListV(RealignItersElseBranch),
             stage           |-> IntV(-4),
             power           |-> FloatV("0.25"),
             do_fmllr        |-> BoolV(FALSE),
             do_lda_mllt     |-> BoolV(FALSE)]
    IN  SetAttrs(assigned, kwargs)

TriphoneDefaults ==
    [num_iters           |-> IntV(35),
     initial_gauss_count |-> IntV(3100),
     max_gauss_count     |-> IntV(50000),
     cluster_threshold   |-> IntV(100),
     do_lda_mllt         |-> BoolV(FALSE)]

\* TriphoneConfig.__init__(self, **kwargs)
TriphoneConfig_init(kwargs) ==
    MonophoneConfig_init(StageDictUpdate(TriphoneDefaults, kwargs))

TriphoneFmllrDefaults ==
    [do_fmllr          |-> BoolV(TRUE),
     do_lda_mllt       |-> BoolV(FALSE),
     fmllr_update_type |-> TextV("full"),
     fmllr_iters       |-> ListV(<<2, 4, 6, 12>>),
     fmllr_power       |-> FloatV("0.2"),
     silence_weight    |-> FloatV("0.0")]

\* TriphoneFmllrConfig.__init__(self, align_often=True, **kwargs): the named
\* parameter is bound and never read; only kwargs is passed on
TriphoneFmllrConfig_init(align_often, kwargs) ==
    TriphoneConfig_init(StageDictUpdate(TriphoneFmllrDefaults, kwargs))

\* LdaMlltConfig.__init__(self, **kwargs)
LdaMlltConfig_init(kwargs) ==
    LET assigned ==
            [num_iters           |-> IntV(13),
             do_fmllr            |-> BoolV(FALSE),
             do_lda_mllt         |-> BoolV(TRUE),
             scale_opts          |-> ScaleOpts,
             num_gauss           |-> IntV(5000),
             beam                |-> IntV(10),
             retry_beam          |-> IntV(40),
             initial_gauss_count |-> IntV(5000),
             cluster_threshold   |-> IntV(-1),
             max_gauss_count     |-> IntV(10000),
             boost_silence       |-> FloatV("1.0"),
             realign_iters       |-> ListV(<<1, 2, 3, 4, 5, 6, 7, 8, 9, 10, 11, 12, 13>>),
             stage               |-> IntV(-5),
             power               |-> FloatV("0.25"),
             dim                 |-> IntV(40),
             careful             |-> BoolV(FALSE),
             randprune           |-> FloatV("4.0"),
             splice_opts         |-> TListV(<<"--left-context=3", "--right-context=3">>),
             cluster_thresh      |-> IntV(-1),
             norm_vars           |-> BoolV(FALSE)]
    IN  SetAttrs(assigned, kwargs)

(***************************************************************************)
(* Derived properties.  A read returns a value or raises; the outcome is a *)
(* record [status, n].                                                     *)
(***************************************************************************)
Abs(x) == IF x < 0 THEN -x ELSE x

Raised(err)  == [status |-> err, n |-> 0]
Returned(x)  == [status |-> "value", n |-> x]
Unread       == [status |-> "unread", n |-> 0]

\* a // b, Python's floor division (the mutant of PyIntTrueDiv)
PyFloorDiv(a, b) ==
    LET q == Abs(a) \div Abs(b)
    IN  IF (a < 0) = (b < 0) THEN q
        ELSE IF q * Abs(b) = Abs(a) THEN -q ELSE -q - 1

\* int(a / b) for b # 0: the true quotient with its fraction dropped, i.e.
\* rounded toward zero.  a / b is a double; for |a|, |b| < 2^53 the double
\* nearest to the quotient has the same integer part as the quotient.
PyIntTrueDiv(a, b) ==
    LET q == Abs(a) \div Abs(b)
    IN  IF (a < 0) = (b < 0) THEN q ELSE -q

\* MonophoneConfig.max_iter_inc (inherited by the triphone classes)
MonophoneConfig_max_iter_inc(o) == o["num_iters"].n - 10

\* LdaMlltConfig.max_iter_inc
LdaMlltConfig_max_iter_inc(o) == o["num_iters"].n

max_iter_inc(c, o) ==
    IF c = "LdaMlltConfig" THEN LdaMlltConfig_max_iter_inc(o)
    ELSE MonophoneConfig_max_iter_inc(o)

\* mutant of inc_gauss_count: a missing initial_gauss_count counts as 0 and a
\* zero max_iter_inc yields 0 instead of raising
inc_gauss_count_lenient(c, o) ==
    LET init == IF o["initial_gauss_count"].kind = "absent" THEN 0
                ELSE o["initial_gauss_count"].n
    IN  IF max_iter_inc(c, o) = 0 THEN Returned(0)
        ELSE Returned(PyIntTrueDiv(o["max_gauss_count"].n - init, max_iter_inc(c, o)))

\* inc_gauss_count of both class families (config.py:86 and :294 are the same
\* expression): the attributes are read left to right, so a missing attribute
\* raises before the division is attempted
inc_gauss_count(c, o) ==
    IF o["max_gauss_count"].kind = "absent" THEN Raised("AttributeError")
    ELSE IF o["initial_gauss_count"].kind = "absent" THEN Raised("AttributeError")
    ELSE IF o["num_iters"].kind = "absent" THEN Raised("AttributeError")
    ELSE IF max_iter_inc(c, o) = 0 THEN Raised("ZeroDivisionError")
    ELSE Returned(PyIntTrueDiv(o["max_gauss_count"].n - o["initial_gauss_count"].n,
                               max_iter_inc(c, o)))

(***************************************************************************)
(* Inputs of the training-stage constructors: any subset of these keys,    *)
(* each with one of the listed values.                                     *)
(***************************************************************************)
StageKwValues ==
    [num_iters           |-> {IntV(0), IntV(7), IntV(10), IntV(12), IntV(-3)},
     max_gauss_count     |-> {IntV(-7), IntV(9)},
     initial_gauss_count |-> {IntV(0), IntV(2)},
     align_often         |-> {BoolV(TRUE), BoolV(FALSE)},
     do_fmllr            |-> {BoolV(FALSE)},
     beam                |-> {IntV(20)},
     realign_iters       |-> {ListV(<<2, 4>>)}]

StageKwKeys == DOMAIN StageKwValues

RECURSIVE KwargsOver(_)
KwargsOver(keys) ==
    IF keys = {} THEN {EmptyKw}
    ELSE LET key  == CHOOSE k \in keys : TRUE
             rest == KwargsOver(keys \ {key})
         IN  rest \cup {(key :> v) @@ kw : kw \in rest, v \in StageKwValues[key]}

StageKwargs == KwargsOver(StageKwKeys)

\* align_often is a named parameter of TriphoneFmllrConfig.__init__, so Python
\* never leaves it in **kwargs
FmllrKwargs == KwargsOver(StageKwKeys \ {"align_often"})

StageInit ==
    /\ cls = "none"
    /\ obj = <<>>
    /\ ctorKwargs = EmptyKw
    /\ ctorAlignOften = Absent
    /\ incResult = Unread

ConstructMonophone(kwargs) ==
    /\ cls = "none"
    /\ cls' = "MonophoneConfig"
    /\ obj' = MonophoneConfig_init(kwargs)
    /\ ctorKwargs' = kwargs
    /\ UNCHANGED <<ctorAlignOften, incResult, mfccVars, concVars>>

ConstructTriphone(kwargs) ==
    /\ cls = "none"
    /\ cls' = "TriphoneConfig"
    /\ obj' = TriphoneConfig_init(kwargs)
    /\ ctorKwargs' = kwargs
    /\ UNCHANGED <<ctorAlignOften, incResult, mfccVars, concVars>>

\* supplied is Absent when the caller leaves align_often to its default
ConstructTriphoneFmllr(supplied, kwargs) ==
    LET align_often == IF supplied = Absent THEN BoolV(TRUE) ELSE supplied
    IN  /\ cls = "none"
        /\ cls' = "TriphoneFmllrConfig"
        /\ obj' = TriphoneFmllrConfig_init(align_often, kwargs)
        /\ ctorKwargs' = kwargs
        /\ ctorAlignOften' = align_often
        /\ UNCHANGED <<incResult, mfccVars, concVars>>

ConstructLdaMllt(kwargs) ==
    /\ cls = "none"
    /\ cls' = "LdaMlltConfig"
    /\ obj' = LdaMlltConfig_init(kwargs)
    /\ ctorKwargs' = kwargs
    /\ UNCHANGED <<ctorAlignOften, incResult, mfccVars, concVars>>

\* a read of the inc_gauss_count property; an exception reaches the caller
ReadIncGaussCount ==
    /\ cls # "none"
    /\ incResult' = inc_gauss_count(cls, obj)
    /\ UNCHANGED <<cls, obj, ctorKwargs, ctorAlignOften, mfccVars, concVars>>

NextStage ==
    \/ \E kwargs \in StageKwargs : ConstructMonophone(kwargs)
    \/ \E kwargs \in StageKwargs : ConstructTriphone(kwargs)
    \/ \E supplied \in {Absent, BoolV(TRUE), BoolV(FALSE)}, kwargs \in FmllrKwargs :
           ConstructTriphoneFmllr(supplied, kwargs)
    \/ \E kwargs \in StageKwargs : ConstructLdaMllt(kwargs)
    \/ ReadIncGaussCount

(***************************************************************************)
(* Text.  A str is a sequence of one-character strings, so that formatting *)
(* and concatenation are computed character by character.                  *)
(***************************************************************************)
S_use_energy  == <<"u", "s", "e", "-", "e", "n", "e", "r", "g", "y">>
S_frame_shift == <<"f", "r", "a", "m", "e", "-", "s", "h", "i", "f", "t">>
S_snip_edges  == <<"s", "n", "i", "p", "-", "e", "d", "g", "e", "s">>
S_window_type == <<"w", "i", "n", "d", "o", "w", "-", "t", "y", "p", "e">>
S_povey       == <<"p", "o", "v", "e", "y">>
S_config      == <<"c", "o", "n", "f", "i", "g">>
S_mfcc_conf   == <<"m", "f", "c", "c", ".", "c", "o", "n", "f">>
S_mfcc_dot    == <<"m", "f", "c", "c", ".">>
S_dot_conf    == <<".", "c", "o", "n", "f">>

Digit(d) == <<"0", "1", "2", "3", "4", "5", "6", "7", "8", "9">>[d + 1]

RECURSIVE NatToStr(_)
NatToStr(n) ==
    IF n < 10 THEN <<Digit(n)>>
    ELSE NatToStr(n \div 10) \o <<Digit(n % 10)>>

\* str(n) for an int
IntToStr(n) == IF n < 0 THEN <<"-">> \o NatToStr(-n) ELSE NatToStr(n)

\* str(value)
PyStr(v) ==
    CASE v.kind = "bool" -> IF v.b THEN <<"T", "r", "u", "e">>
                            ELSE <<"F", "a", "l", "s", "e">>
      [] v.kind = "int"  -> IntToStr(v.n)
      [] v.kind = "str"  -> v.s
      [] OTHER           -> <<"N", "o", "n", "e">>

\* str.lower() on the characters str(bool) produces
LowerChar(c) ==
    CASE c = "T" -> "t"
      [] c = "F" -> "f"
      [] OTHER   -> c

Lower(str) == [i \in 1..Len(str) |-> LowerChar(str[i])]

\* mutant of make_safe: the isinstance(value, bool) branch is missing
make_safe_no_bool_branch(value) == PyStr(value)

\* make_safe(value)
make_safe(value) ==
    IF value.kind = "bool" THEN Lower(PyStr(value)) ELSE PyStr(value)

\* '--{}={}\n'.format(k, make_safe(v)) for a str key k
FormatEntry(k, v) == <<"-", "-">> \o k \o <<"=">> \o make_safe(v) \o <<"\n">>

(***************************************************************************)
(* config_dict: a Python dict keeps insertion order, so it is a sequence   *)
(* of entries [k, v] with pairwise different keys.                         *)
(***************************************************************************)
Entry(key, value) == [k |-> key, v |-> value]

HasKey(d, key) == \E i \in 1..Len(d) : d[i].k = key

\* d[key] = value
DictSet(d, key, value) ==
    IF HasKey(d, key)
    THEN [i \in 1..Len(d) |-> IF d[i].k = key THEN Entry(key, value) ELSE d[i]]
    ELSE Append(d, Entry(key, value))

\* mutant of DictUpdate: an existing key is dropped and re-inserted at the end
RECURSIVE DictUpdateReinsert(_, _)
DictUpdateReinsert(d, kw) ==
    IF kw = <<>> THEN d
    ELSE DictUpdateReinsert(
            Append(SelectSeq(d, LAMBDA e : e.k # Head(kw).k), Head(kw)),
            Tail(kw))

\* d.update(kw): the entries of kw are set one by one in kw's order
RECURSIVE DictUpdate(_, _)
DictUpdate(d, kw) ==
    IF kw = <<>> THEN d
    ELSE DictUpdate(DictSet(d, Head(kw).k, Head(kw).v), Tail(kw))

\* {'use-energy': False, 'frame-shift': 10}
DefaultConfigDict ==
    <<Entry(S_use_energy, BoolV(FALSE)), Entry(S_frame_shift, IntV(10))>>

\* the text the loop of write() passes to f.write for the first n entries
RECURSIVE WrittenText(_, _)
WrittenText(d, n) ==
    IF n = 0 THEN <<>>
    ELSE WrittenText(d, n - 1) \o FormatEntry(d[n].k, d[n].v)

(***************************************************************************)
(* Paths and the filesystem.                                               *)
(***************************************************************************)
\* os.path.join(a, b) for a relative b
OsPathJoin(a, b) ==
    IF a = <<>> THEN b
    ELSE IF a[Len(a)] = "/" THEN a \o b
    ELSE a \o <<"/">> \o b

\* the directory self.config_directory names
ConfigDirectory(outdir) == OsPathJoin(outdir, S_config)

\* mutant of FileName: "if not self.job" in place of "if self.job is None"
FileNameFalsy(jb) ==
    IF ~Truthy(jb) THEN S_mfcc_conf
    ELSE S_mfcc_dot \o PyStr(jb) \o S_dot_conf

\* the name f chosen in MfccConfig.path; '{}'.format(job) is str(job)
FileName(jb) ==
    IF jb.kind = "none" THEN S_mfcc_conf
    ELSE S_mfcc_dot \o PyStr(jb) \o S_dot_conf

\* MfccConfig.path
Path(outdir, jb) == OsPathJoin(ConfigDirectory(outdir), FileName(jb))

\* the directories os.makedirs(p, exist_ok=True) leaves in existence: p and
\* every parent of p
Makedirs(ds, p) ==
    ds \cup {p} \cup {SubSeq(p, 1, i - 1) : i \in {j \in 2..Len(p) : p[j] = "/"}}

\* outcome of the filesystem calls of one write(): all succeed, or one of
\* them raises OSError; a failing f.write leaves the text of the first
\* n entries in the file
Ok            == [kind |-> "ok", n |-> 0]
MakedirsError == [kind |-> "makedirs_error", n |-> 0]
OpenError     == [kind |-> "open_error", n |-> 0]
WriteError(n) == [kind |-> "write_error", n |-> n]
NoOutcome     == [kind |-> "none", n |-> 0]

Outcomes(d) ==
    {Ok, MakedirsError, OpenError} \cup {WriteError(n) : n \in 0..(Len(d) - 1)}

\* files with the file at path p holding text
WithFile(fs, p, text) ==
    [q \in DOMAIN fs \cup {p} |-> IF q = p THEN text ELSE fs[q]]

\* mutant of FilesAfterWrite: the file is opened without truncation, so text
\* beyond the new content survives
FilesAfterWriteNoTruncate(fs, outdir, jb, d, outcome) ==
    LET p    == Path(outdir, jb)
        old  == IF p \in DOMAIN fs THEN fs[p] ELSE <<>>
        new  == WrittenText(d, IF outcome.kind = "ok" THEN Len(d) ELSE outcome.n)
        text == new \o SubSeq(old, Len(new) + 1, Len(old))
    IN  IF outcome.kind \in {"makedirs_error", "open_error"} THEN fs
        ELSE WithFile(fs, p, text)

\* the files after write(): open(self.path, 'w') creates or truncates the
\* file, then the entries are written in the dictionary's order
FilesAfterWrite(fs, outdir, jb, d, outcome) ==
    IF outcome.kind \in {"makedirs_error", "open_error"} THEN fs
    ELSE WithFile(fs, Path(outdir, jb), 
                  WrittenText(d, IF outcome.kind = "ok" THEN Len(d) ELSE outcome.n))

\* the directories after write(): self.path reads self.config_directory
DirsAfterWrite(ds, outdir, outcome) ==
    IF outcome.kind = "makedirs_error" THEN ds
    ELSE Makedirs(ds, ConfigDirectory(outdir))

(***************************************************************************)
(* MfccConfig: inputs, initial state and operations.                       *)
(***************************************************************************)
MaxKw == 2

OutDirs == {<<"D">>, <<"E", "/", "F">>}

Jobs == {NoneV, IntV(0), IntV(3), StrV(<<>>)}

MfccEntries ==
    {Entry(S_use_energy, BoolV(TRUE)),
     Entry(S_frame_shift, IntV(15)), Entry(S_snip_edges, BoolV(FALSE)),
     Entry(S_window_type, StrV(S_povey))}

\* the mappings a caller passes: at most MaxKw entries, keys pairwise different
MfccKwargs ==
    {kw \in UNION {[1..n -> MfccEntries] : n \in 0..MaxKw} :
        \A i, j \in 1..Len(kw) : kw[i].k = kw[j].k => i = j}

\* what an earlier run left under D/config: a longer file than any write of
\* this run produces
StaleText ==
    WrittenText(<<Entry(S_use_energy, BoolV(TRUE)), Entry(S_frame_shift, IntV(10)),
                  Entry(S_snip_edges, BoolV(TRUE)), Entry(S_window_type, StrV(S_povey)),
                  Entry(S_povey, IntV(-20))>>, 5)

\* every outcome of a write() of a dictionary over the keys in use
AllOutcomes ==
    Outcomes([i \in 1..Cardinality({e.k : e \in MfccEntries}) |-> Entry(<<>>, NoneV)])

MfccIdle ==
    /\ constructed = FALSE
    /\ job = NoneV
    /\ output_directory = <<>>
    /\ config_dict = <<>>
    /\ dirs = {}
    /\ files = [p \in {} |-> <<>>]
    /\ lastOp = "none"
    /\ lastKw = <<>>
    /\ lastOutcome = NoOutcome
    /\ lastWrite = "none"
    /\ pathResult = NoneV

\* directory D holds the mfcc.conf of an earlier run, directory E/F does not exist
MfccInit ==
    /\ constructed = FALSE
    /\ job = NoneV
    /\ output_directory = <<>>
    /\ config_dict = <<>>
    /\ dirs = Makedirs({}, ConfigDirectory(<<"D">>))
    /\ files = [p \in {Path(<<"D">>, NoneV)} |-> StaleText]
    /\ lastOp = "none"
    /\ lastKw = <<>>
    /\ lastOutcome = NoOutcome
    /\ lastWrite = "none"
    /\ pathResult = NoneV

\* MfccConfig(output_directory, job, kwargs): the attributes are assigned, then
\* write() runs; when it raises, the exception leaves __init__ and the caller
\* gets no object
MfccConstruct(outdir, jb, kwargs, outcome) ==
    LET d == DictUpdate(DefaultConfigDict, kwargs)
    IN  /\ lastOp = "none"
        /\ outcome \in Outcomes(d)
        /\ files' = FilesAfterWrite(files, outdir, jb, d, outcome)
        /\ dirs' = DirsAfterWrite(dirs, outdir, outcome)
        /\ job' = jb
        /\ config_dict' = d
        /\ output_directory' = outdir
        /\ constructed' = (outcome = Ok)
        /\ pathResult' = IF outcome = MakedirsError THEN pathResult
                         ELSE StrV(Path(outdir, jb))
        /\ lastOp' = "init"
        /\ lastKw' = kwargs
        /\ lastOutcome' = outcome
        /\ lastWrite' = IF outcome = Ok THEN "ok" ELSE "error"
        /\ UNCHANGED <<stageVars, concVars>>

\* mutant of MfccUpdate: the merged dictionary is kept only when write() succeeds
MfccUpdateRollback(kwargs, outcome) ==
    LET d == DictUpdate(config_dict, kwargs)
    IN  /\ constructed
        /\ outcome \in Outcomes(d)
        /\ config_dict' = IF outcome = Ok THEN d ELSE config_dict
        /\ files' = FilesAfterWrite(files, output_directory, job, d, outcome)
        /\ dirs' = DirsAfterWrite(dirs, output_directory, outcome)
        /\ pathResult' = IF outcome = MakedirsError THEN pathResult
                         ELSE StrV(Path(output_directory, job))
        /\ lastOp' = "update"
        /\ lastKw' = kwargs
        /\ lastOutcome' = outcome
        /\ lastWrite' = IF outcome = Ok THEN "ok" ELSE "error"
        /\ UNCHANGED <<constructed, job, output_directory, stageVars, concVars>>

\* MfccConfig.update(kwargs): merge, then write()
MfccUpdate(kwargs, outcome) ==
    LET d == DictUpdate(config_dict, kwargs)
    IN  /\ constructed
        /\ outcome \in Outcomes(d)
        /\ config_dict' = d
        /\ files' = FilesAfterWrite(files, output_directory, job, d, outcome)
        /\ dirs' = DirsAfterWrite(dirs, output_directory, outcome)
        /\ pathResult' = IF outcome = MakedirsError THEN pathResult
                         ELSE StrV(Path(output_directory, job))
        /\ lastOp' = "update"
        /\ lastKw' = kwargs
        /\ lastOutcome' = outcome
        /\ lastWrite' = IF outcome = Ok THEN "ok" ELSE "error"
        /\ UNCHANGED <<constructed, job, output_directory, stageVars, concVars>>

\* a read of the path property by the caller
MfccReadPath(outcome) ==
    /\ constructed
    /\ dirs' = DirsAfterWrite(dirs, output_directory, outcome)
    /\ pathResult' = IF outcome = MakedirsError THEN pathResult
                     ELSE StrV(Path(output_directory, job))
    /\ lastOp' = "path"
    /\ lastKw' = <<>>
    /\ lastOutcome' = outcome
    /\ UNCHANGED <<constructed, job, output_directory, config_dict, files, lastWrite,
                   stageVars, concVars>>

(***************************************************************************)
(* Two MfccConfig objects with the same output directory and job, each     *)
(* running write() once.  open(path, 'w') truncates the file and gives the *)
(* writer its own descriptor at offset 0; f.write() collects text in the   *)
(* file object's buffer, which holds far more than these dictionaries      *)
(* produce, so the text reaches the file in one piece when the with-block  *)
(* closes the file.                                                        *)
(***************************************************************************)
Writers == {1, 2}

Other(w) == 3 - w

\* the dictionaries the two objects may hold
ConcDicts == {DictUpdate(DefaultConfigDict, kw) : kw \in MfccKwargs}

\* the file after data is written at offset pos; a gap is filled with NUL
WriteAt(text, pos, data) ==
    [i \in 1..(IF Len(text) > pos + Len(data) THEN Len(text) ELSE pos + Len(data)) |->
        IF i > pos /\ i <= pos + Len(data) THEN data[i - pos]
        ELSE IF i <= Len(text) THEN text[i]
        ELSE "NUL"]

ConcIdle ==
    /\ wdict = <<>>
    /\ wpc = <<>>
    /\ widx = <<>>
    /\ wbuf = <<>>
    /\ cfile = <<>>
    /\ overlap = FALSE
    /\ wlast = 0

ConcInit ==
    /\ wdict \in [Writers -> ConcDicts]
    /\ wpc = [w \in Writers |-> "idle"]
    /\ widx = [w \in Writers |-> 0]
    /\ wbuf = [w \in Writers |-> <<>>]
    /\ cfile = StaleText
    /\ overlap = FALSE
    /\ wlast = 0

\* mutant of ConcOpen: the file is opened without truncation
ConcOpenNoTruncate(w) ==
    /\ wpc[w] = "idle"
    /\ wpc' = [wpc EXCEPT ![w] = "open"]
    /\ overlap' = (overlap \/ wpc[Other(w)] = "open")
    /\ UNCHANGED <<cfile, wdict, widx, wbuf, wlast, stageVars, mfccVars>>

\* open(self.path, 'w', encoding='utf8')
ConcOpen(w) ==
    /\ wpc[w] = "idle"
    /\ wpc' = [wpc EXCEPT ![w] = "open"]
    /\ cfile' = <<>>
    /\ overlap' = (overlap \/ wpc[Other(w)] = "open")
    /\ UNCHANGED <<wdict, widx, wbuf, wlast, stageVars, mfccVars>>

\* one pass of the loop: f.write('--{}={}\n'.format(k, make_safe(v)))
ConcWriteEntry(w) ==
    /\ wpc[w] = "open"
    /\ widx[w] < Len(wdict[w])
    /\ widx' = [widx EXCEPT ![w] = @ + 1]
    /\ wbuf' = [wbuf EXCEPT ![w] =
                   @ \o FormatEntry(wdict[w][widx[w] + 1].k, wdict[w][widx[w] + 1].v)]
    /\ UNCHANGED <<wdict, wpc, cfile, overlap, wlast, stageVars, mfccVars>>

\* leaving the with-block: the buffer is written at the descriptor's offset,
\* which is 0 since the open, and the file is closed
ConcClose(w) ==
    /\ wpc[w] = "open"
    /\ widx[w] = Len(wdict[w])
    /\ cfile' = WriteAt(cfile, 0, wbuf[w])
    /\ wbuf' = [wbuf EXCEPT ![w] = <<>>]
    /\ wpc' = [wpc EXCEPT ![w] = "done"]
    /\ wlast' = w
    /\ UNCHANGED <<wdict, widx, overlap, stageVars, mfccVars>>

InitConc == StageInit /\ MfccIdle /\ ConcInit

NextConc ==
    \/ \E w \in Writers : ConcOpen(w)
    \/ \E w \in Writers : ConcWriteEntry(w)
    \/ \E w \in Writers : ConcClose(w)

SpecConc == InitConc /\ [][NextConc]_vars

Init == StageInit /\ MfccInit /\ ConcIdle

\* Spec: every filesystem call succeeds
Next ==
    \/ \E outdir \in OutDirs, jb \in Jobs, kwargs \in MfccKwargs :
           MfccConstruct(outdir, jb, kwargs, Ok)
    \/ \E kwargs \in MfccKwargs : MfccUpdate(kwargs, Ok)
    \/ MfccReadPath(Ok)

Spec == Init /\ [][Next]_vars

\* SpecFault: any filesystem call may raise; the mappings have at most one entry
SmallKwargs == {kw \in MfccKwargs : Len(kw) <= 1}

NextFault ==
    \/ \E outdir \in OutDirs, jb \in Jobs, kwargs \in SmallKwargs, outcome \in AllOutcomes :
           MfccConstruct(outdir, jb, kwargs, outcome)
    \/ \E kwargs \in SmallKwargs, outcome \in AllOutcomes : MfccUpdate(kwargs, outcome)
    \/ \E outcome \in {Ok, MakedirsError} : MfccReadPath(outcome)

SpecFault == Init /\ [][NextFault]_vars

InitStage == StageInit /\ MfccIdle /\ ConcIdle

SpecStage == InitStage /\ [][NextStage]_vars

(***************************************************************************)
(* Properties.  The expected values below are written from the statements  *)
(* being checked, not from the definitions above.                          *)
(***************************************************************************)
ScheduleAlignOften == <<1, 5, 10, 15, 20, 25, 30, 35, 38>>

ScheduleDefault ==
    <<1, 2, 3, 4, 5, 6, 7, 8, 9, 10, 12, 14, 16, 18, 20, 23, 26, 29, 32, 35, 38>>

Supplied(key) == key \in DOMAIN ctorKwargs

\* C2: MonophoneConfig constructed with align_often=true and no explicit
\* realign_iters has realign_iters = [1,5,10,15,20,25,30,35,38]; with
\* align_often false or not supplied it has the 21-element schedule.
C2_RealignSchedule ==
    (cls = "MonophoneConfig" /\ ~Supplied("realign_iters")) =>
        obj["realign_iters"] =
            IF Supplied("align_often") /\ ctorKwargs["align_often"] = BoolV(TRUE)
            THEN ListV(ScheduleAlignOften)
            ELSE ListV(ScheduleDefault)

\* C3: TriphoneFmllrConfig constructed with no align_often or align_often=true
\* has realign_iters = [1,5,10,15,20,25,30,35,38]; constructed with
\* align_often=false it has the 21-element schedule.
C3_FmllrAlignOften ==
    (cls = "TriphoneFmllrConfig" /\ ~Supplied("realign_iters")) =>
        obj["realign_iters"] =
            IF ctorAlignOften = BoolV(TRUE)
            THEN ListV(ScheduleAlignOften)
            ELSE ListV(ScheduleDefault)

\* the stage-specific defaults of section 4.3 and the base defaults of 4.2
StatedFmllrDefaults ==
    ("do_fmllr" :> BoolV(TRUE)) @@ ("do_lda_mllt" :> BoolV(FALSE))
    @@ ("fmllr_update_type" :> TextV("full")) @@ ("fmllr_iters" :> ListV(<<2, 4, 6, 12>>))
    @@ ("fmllr_power" :> FloatV("0.2")) @@ ("silence_weight" :> FloatV("0.0"))

StatedTriphoneDefaults ==
    ("num_iters" :> IntV(35)) @@ ("initial_gauss_count" :> IntV(3100))
    @@ ("max_gauss_count" :> IntV(50000)) @@ ("cluster_threshold" :> IntV(100))
    @@ ("do_lda_mllt" :> BoolV(FALSE))

StatedBaseDefaults ==
    ("num_iters" :> IntV(40)) @@ ("beam" :> IntV(10)) @@ ("retry_beam" :> IntV(40))
    @@ ("max_gauss_count" :> IntV(1000)) @@ ("boost_silence" :> FloatV("1.0"))
    @@ ("stage" :> IntV(-4)) @@ ("power" :> FloatV("0.25"))
    @@ ("do_fmllr" :> BoolV(FALSE)) @@ ("do_lda_mllt" :> BoolV(FALSE))
    @@ ("scale_opts" :> TListV(<<"--transition-scale=1.0", "--acoustic-scale=0.1",
                                 "--self-loop-scale=0.1">>))

StatedMaxIterInc ==
    IF cls = "LdaMlltConfig" THEN obj["num_iters"].n ELSE obj["num_iters"].n - 10

StatedNumerator == obj["max_gauss_count"].n - obj["initial_gauss_count"].n

\* q is the floor of a / b: the remainder is zero or has the sign of b
IsFloorQuotient(q, a, b) ==
    LET r == a - q * b
    IN  IF b > 0 THEN 0 <= r /\ r < b ELSE b < r /\ r <= 0

\* q is a / b rounded toward zero: the remainder is zero or has the sign of a
IsTruncatedQuotient(q, a, b) ==
    LET r == a - q * b
    IN  Abs(r) < Abs(b) /\ (IF a >= 0 THEN r >= 0 ELSE r <= 0)

C6_FaultingRead ==
    [][incResult' # Unread =>
         /\ obj' = obj
         /\ (cls' = "MonophoneConfig" /\ "initial_gauss_count" \notin DOMAIN ctorKwargs')
                => incResult'.status = "AttributeError"
         /\ (/\ obj'["initial_gauss_count"] # Absent
             /\ \/ cls' # "LdaMlltConfig" /\ obj'["num_iters"] = IntV(10)
                \/ cls' = "LdaMlltConfig" /\ obj'["num_iters"] = IntV(0))
                => incResult'.status = "ZeroDivisionError"
         /\ incResult'.status = "value"
                => (obj'["initial_gauss_count"] # Absent /\ StatedMaxIterInc' # 0)
      ]_vars

\* the missing field is reported even when max_iter_inc is zero as well
C6_Witness ==
    /\ cls = "MonophoneConfig"
    /\ obj["num_iters"] = IntV(10)
    /\ obj["initial_gauss_count"] = Absent
    /\ incResult.status = "AttributeError"

(***************************************************************************)
(* MfccConfig: the file format and the path as the statements give them.   *)
(***************************************************************************)
StatedValueText(v) ==
    IF v = BoolV(TRUE) THEN <<"t", "r", "u", "e">>
    ELSE IF v = BoolV(FALSE) THEN <<"f", "a", "l", "s", "e">>
    ELSE PyStr(v)

StatedLine(e) == <<"-", "-">> \o e.k \o <<"=">> \o StatedValueText(e.v) \o <<"\n">>

RECURSIVE StatedText(_)
StatedText(d) ==
    IF d = <<>> THEN <<>> ELSE StatedLine(Head(d)) \o StatedText(Tail(d))

StatedPath(outdir, jb) ==
    outdir \o <<"/">> \o S_config \o <<"/", "m", "f", "c", "c">>
    \o (IF jb = NoneV THEN <<>> ELSE <<".">> \o PyStr(jb))
    \o <<".", "c", "o", "n", "f">>

FileAt(fs, p) == IF p \in DOMAIN fs THEN fs[p] ELSE <<"(", "n", "o", " ", "f", "i", "l", "e", ")">>

KeysOf(d) == [i \in 1..Len(d) |-> d[i].k]

Range(seq) == {seq[i] : i \in 1..Len(seq)}

\* the value kw gives to key
ValueIn(kw, key) == kw[CHOOSE i \in 1..Len(kw) : kw[i].k = key].v

\* d with the values of kw's keys replaced where they stand and kw's other
\* entries added behind, in kw's order
StatedMerge(d, kw) ==
    [i \in 1..Len(d) |->
        IF d[i].k \in Range(KeysOf(kw)) THEN Entry(d[i].k, ValueIn(kw, d[i].k)) ELSE d[i]]
    \o SelectSeq(kw, LAMBDA e : e.k \notin Range(KeysOf(d)))

\* the positions of the newlines of a text, its number of lines, and its n-th
\* line with its newline
NewlinesOf(text) == {i \in 1..Len(text) : text[i] = "\n"}

LineCount(text) ==
    Cardinality(NewlinesOf(text))
    + (IF text # <<>> /\ text[Len(text)] # "\n" THEN 1 ELSE 0)

LineEnd(text, n) ==
    IF n = 0 THEN 0
    ELSE IF n > Cardinality(NewlinesOf(text)) THEN Len(text)
    ELSE CHOOSE e \in NewlinesOf(text) :
             Cardinality({x \in NewlinesOf(text) : x <= e}) = n

LineAt(text, n) == SubSeq(text, LineEnd(text, n - 1) + 1, LineEnd(text, n))

IsProperPrefix(a, b) == Len(a) < Len(b) /\ a = SubSeq(b, 1, Len(a))

\* C1: once MfccConfig is constructed, and whenever its most recent write() has
\* succeeded, the file at path holds exactly one line '--<key>=<value>\n' per
\* entry of config_dict in the dictionary's order, booleans as lowercase
\* true/false, other values in their string form, and nothing else.
C1_FileReflectsDict ==
    (constructed /\ lastWrite = "ok") =>
        FileAt(files, StatedPath(output_directory, job)) = StatedText(config_dict)

\* an update that made the text shorter than the text it replaced
C1_Witness ==
    /\ constructed
    /\ lastOp = "update"
    /\ lastWrite = "ok"
    /\ lastKw = <<Entry(S_use_energy, BoolV(TRUE))>>
    /\ KeysOf(config_dict) = <<S_use_energy, S_frame_shift, S_window_type>>
    /\ FileAt(files, StatedPath(output_directory, job)) = StatedText(config_dict)

C8_PathFromJob ==
    [][/\ pathResult' # NoneV =>
            /\ pathResult' = StrV(StatedPath(output_directory', job'))
            /\ (pathResult' = StrV(output_directory' \o <<"/">> \o S_config \o <<"/">>
                                  \o S_mfcc_conf)) <=> (job' = NoneV)
            /\ (output_directory' \o <<"/">> \o S_config) \in dirs'
       /\ (lastOp' = "path" /\ lastOutcome' = Ok
             /\ (output_directory \o <<"/">> \o S_config) \in dirs) =>
            (dirs' = dirs /\ files' = files /\ pathResult' = pathResult)
      ]_vars

\* the path read back from an object with the falsy job identifier 0
C8_Witness ==
    /\ constructed
    /\ lastOp = "path"
    /\ lastOutcome = Ok
    /\ job = IntV(0)
    /\ output_directory = <<"E", "/", "F">>
    /\ pathResult = StrV(<<"E", "/", "F", "/">> \o S_config
                         \o <<"/", "m", "f", "c", "c", ".", "0", ".", "c", "o", "n", "f">>)

AllDone == \A w \in Writers : wpc[w] = "done"

C10_UpdateNotTransactional ==
    [][(lastOp' = "update" /\ lastOutcome' # Ok) =>
         LET p == StatedPath(output_directory, job)
         IN  /\ config_dict' = StatedMerge(config_dict, lastKw')
             /\ \/ FileAt(files', p) = FileAt(files, p)
                \/ IsProperPrefix(FileAt(files', p), StatedText(config_dict'))
      ]_vars

\* after a failed update the dictionary has the new value and the file does not
C10_Witness ==
    /\ constructed
    /\ lastOp = "update"
    /\ lastOutcome = WriteError(1)
    /\ config_dict[2].v = IntV(15)
    /\ FileAt(files, StatedPath(output_directory, job)) = StatedLine(config_dict[1])

====
